---- MODULE Spec2Model ----
(***************************************************************************)
(* poll-channel: crossbeam channels that carry an id ("tag") and can be    *)
(* bound to a Poll, whose poll() reports which bound channel was sent to.  *)
(*                                                                         *)
(* Threads run channel(), Sender::clone, Sender::send, Receiver::recv,     *)
(* Receiver::try_recv, Poll::new, Poll::add, Poll::append and Poll::poll   *)
(* concurrently.                                                           *)
(* Every mutex of src/src/lib.rs is a variable holding its owner (0 when   *)
(* free); an operation that takes a mutex is split at each acquisition.    *)
(* The crossbeam queues are sequences with atomic push and pop.            *)
(***************************************************************************)
EXTENDS Integers, Sequences, FiniteSets

\* ---------------------------------------------------------------- bounds
NThreads == 2
MaxChan == 2
MaxClone == 1
MaxPoll == 2
MaxSends == 2

\* i32::MAX, the largest value of TAG (static TAG: Mutex<i32>)
I32Max == 2147483647
I32Min == (-2147483647) - 1

Threads == 1..NThreads
Chans == 1..(MaxChan + 1)
Senders == 1..(MaxChan + 1 + MaxClone)
Polls == 1..MaxPoll
SendNos == 1..MaxSends

VARIABLES
    lim,          \* the client: how many channels, clones, Polls and sends
                  \*   the threads of this run make (never changes)
    TAG,          \* static TAG: the next id
    tagLock,      \* owner of TAG's mutex, 0 when free
    tagPoisoned,  \* TAG's mutex was poisoned by a panic of its holder
    nchan,        \* channels created so far; channel c is the c-th created
    tag,          \* tag[c]: Receiver.tag of channel c
    queue,        \* queue[c]: the payload queue (Sender.tx / Receiver.rx)
    rxAlive,      \* rxAlive[c]: the Receiver has not been dropped
    link,         \* link[c]: what the outer mutex of `signal` holds:
                  \*   0 = the channel's own inner cell (None), g = Poll g's cell
    outerLock,    \* outerLock[c]: owner of the outer mutex of `signal`
    nsender,      \* Sender instances created so far (originals and clones)
    sChan,        \* sChan[s]: the channel of Sender s
    sTag,         \* sTag[s]: Sender.tag
    sInit,        \* sInit[s]: *Sender.init
    sProducer,    \* sProducer[s]: *Sender.producer: 0 = None, g = Some(Poll g's tx)
    sInitLock,    \* owner of Sender.init's mutex
    sProdLock,    \* owner of Sender.producer's mutex
    npoll,        \* Polls created so far
    pollAlive,    \* pollAlive[g]: the Poll has not been dropped
    ready,        \* ready[g]: the queue of Poll g's Signal (tx / rx)
    sigLock,      \* sigLock[g]: owner of Poll.signal's mutex
    pc,           \* pc[t]: where thread t is
    cur,          \* cur[t]: the Sender or Poll thread t is operating on
    aux,          \* aux[t]: a local: `next` in channel(), `data` in send,
                  \*   the Receiver `i` the loop of append has come to
    res,          \* res[t]: the local `result` of send
    ret,          \* ret[t]: what thread t's last channel() or poll returned,
                  \*   until its next call (what a send returned is in log)
    nsent,        \* history: number of send calls started
    log,          \* history: log[v] = the v-th send: its Sender, the sends
                  \*   finished and whether the Receiver was gone when it
                  \*   started, what it returned (1 Ok, 0 Err, -1: not
                  \*   yet), the Poll whose tx it pushed on (0: None) and
                  \*   whether that push landed
    pushed,       \* history: pushed[g] = every entry pushed on ready[g]
    returned,     \* history: returned[g] = every entry poll took off ready[g]
    enq,          \* history: enq[c] = every payload put on queue[c]
    deq,          \* history: deq[c] = every payload taken off queue[c]
    late,         \* history: late[c] = a send on channel c started before it
                  \*   was bound, or add moved it from one Poll to another
    snap          \* history: snap[t] = what thread t's call found when it
                  \*   started (send: lk0, first; poll: h0, h1, saw)

progVars == <<lim, TAG, tagLock, tagPoisoned, nchan, tag, queue, rxAlive, link,
              outerLock, nsender, sChan, sTag, sInit, sProducer, sInitLock,
              sProdLock, npoll, pollAlive, ready, sigLock, pc, cur, aux, res,
              ret>>
histVars == <<nsent, log, pushed, returned, enq, deq, late, snap>>
vars == <<progVars, histVars>>

\* ------------------------------------------------------------- helpers
NoRet == [op |-> "none", val |-> 0]
NoLog == [s |-> 0, after |-> {}, dead0 |-> FALSE, res |-> -1, to |-> 0,
          landed |-> FALSE]
NoSnap == [lk0 |-> 0]

\* `*id += 1` on an i32 that does not overflow, and its wrapped result
\* when it does (a build without overflow checks)
Incr32(x) == IF x = I32Max THEN I32Min ELSE x + 1

\* The Signal of Poll g is freed when the last Arc to Poll.signal goes: the
\* Poll itself and every channel whose outer cell was pointed at it by add.
SignalAlive(g) == IF pollAlive[g] THEN TRUE ELSE \E c \in 1..nchan : link[c] = g

Range(q) == {q[i] : i \in DOMAIN q}

\* the channel of the v-th send
LogChan(v) == sChan[log[v].s]

\* The state after nc calls of channel() and np of Poll::new() by the main
\* thread, starting with TAG at t0: channel c has tag t0 + c - 1 and
\* Sender c, nothing is bound, sent or locked.
Built(t0, nc, np) ==
    /\ TAG = t0 + nc
    /\ tagLock = 0
    /\ tagPoisoned = FALSE
    /\ nchan = nc
    /\ tag = [c \in Chans |-> IF c <= nc THEN t0 + c - 1 ELSE 0]
    /\ queue = [c \in Chans |-> <<>>]
    /\ rxAlive = [c \in Chans |-> c <= nc]
    /\ link = [c \in Chans |-> 0]
    /\ outerLock = [c \in Chans |-> 0]
    /\ nsender = nc
    /\ sChan = [s \in Senders |-> IF s <= nc THEN s ELSE 0]
    /\ sTag = [s \in Senders |-> IF s <= nc THEN t0 + s - 1 ELSE 0]
    /\ sInit = [s \in Senders |-> FALSE]
    /\ sProducer = [s \in Senders |-> 0]
    /\ sInitLock = [s \in Senders |-> 0]
    /\ sProdLock = [s \in Senders |-> 0]
    /\ npoll = np
    /\ pollAlive = [g \in Polls |-> g <= np]
    /\ ready = [g \in Polls |-> <<>>]
    /\ sigLock = [g \in Polls |-> 0]
    /\ pc = [t \in Threads |-> "idle"]
    /\ cur = [t \in Threads |-> 0]
    /\ aux = [t \in Threads |-> 0]
    /\ res = [t \in Threads |-> 0]
    /\ ret = [t \in Threads |-> NoRet]
    /\ nsent = 0
    /\ log = [v \in SendNos |-> NoLog]
    /\ pushed = [g \in Polls |-> <<>>]
    /\ returned = [g \in Polls |-> <<>>]
    /\ enq = [c \in Chans |-> <<>>]
    /\ deq = [c \in Chans |-> <<>>]
    /\ late = [c \in Chans |-> FALSE]
    /\ snap = [t \in Threads |-> NoSnap]

\* static TAG: Mutex<i32> = Mutex::new(0);
\* tests/poll.rs: two channels and one Poll made by the main thread; the
\* threads then clone, bind, send, poll and receive.
Init ==
    /\ Built(0, MaxChan, 1)
    /\ lim = [chans |-> MaxChan, clones |-> MaxClone, polls |-> 1,
              sends |-> MaxSends, tag0 |-> 0, checks |-> FALSE]

\* One channel and the Polls made by the main thread; the threads move the
\* channel between the Polls, and Polls and the Receiver are dropped.
InitRebind ==
    /\ Built(0, 1, MaxPoll)
    /\ lim = [chans |-> 1, clones |-> MaxClone, polls |-> MaxPoll,
              sends |-> MaxSends, tag0 |-> 0, checks |-> FALSE]

\* Two channels and two Polls made by the main thread; the threads bind the
\* Receivers one by one and by append, around a single send.
InitBind ==
    /\ Built(0, MaxChan, MaxPoll)
    /\ lim = [chans |-> MaxChan, clones |-> 0, polls |-> MaxPoll,
              sends |-> 1, tag0 |-> 0, checks |-> FALSE]

\* One channel and one Poll made by the main thread; the threads make a
\* second channel and a clone, bind, send and poll, and never stop polling.
InitLive ==
    /\ Built(0, 1, 1)
    /\ lim = [chans |-> 2, clones |-> MaxClone, polls |-> 1,
              sends |-> MaxSends, tag0 |-> 0, checks |-> FALSE]

\* TAG after that many earlier calls of channel(): the values next to the
\* ends of the i32 range. A build with overflow checks never gets past
\* i32::MAX; one without wraps and reaches every i32.
StartTags == {0, I32Max - 1, I32Max, I32Min, -3, -2, -1}

\* Construction alone: channels and Polls made by concurrent threads, in a
\* build with overflow checks or in one without.
InitTag ==
    /\ \E t0 \in StartTags, checks \in BOOLEAN :
          /\ checks => t0 >= 0
          /\ Built(t0, 0, 0)
          /\ lim = [chans |-> MaxChan + 1, clones |-> 0, polls |-> MaxPoll,
                    sends |-> 0, tag0 |-> t0, checks |-> checks]

gTag == <<lim, TAG, tagLock, tagPoisoned>>
gChan == <<nchan, tag>>
gSender == <<nsender, sChan, sTag>>
gSendSt == <<sInit, sProducer, sInitLock, sProdLock>>
gPoll == <<npoll, pollAlive>>
gQueues == <<queue, rxAlive, enq, deq>>
gReady == <<ready, sigLock, pushed, returned>>
gLink == <<link, outerLock, late>>
gSendHist == <<nsent, log>>

\* ------------------------------------------------------------ channel()
Creating == {t \in Threads : pc[t] \in {"chan_read", "chan_incr", "chan_done"}}

TagLockIgnored == TRUE

\* TAG.lock() returns once no other thread holds the mutex
TagLockFree == tagLock = 0

\* let mut id = TAG.lock().unwrap();
ChanLock(t) ==
    /\ pc[t] = "idle"
    /\ nchan + Cardinality(Creating) < lim.chans
    /\ TagLockFree
    /\ IF tagPoisoned
       THEN /\ pc' = [pc EXCEPT ![t] = "panicked"]
            /\ UNCHANGED tagLock
       ELSE /\ pc' = [pc EXCEPT ![t] = "chan_read"]
            /\ tagLock' = t
    /\ ret' = [ret EXCEPT ![t] = NoRet]
    /\ UNCHANGED <<lim, TAG, tagPoisoned, gChan, gSender, gSendSt, gPoll, gQueues,
                   gReady, gLink, gSendHist, cur, aux, res, snap>>

\* let next = *id;
ChanRead(t) ==
    /\ pc[t] = "chan_read"
    /\ aux' = [aux EXCEPT ![t] = TAG]
    /\ pc' = [pc EXCEPT ![t] = "chan_incr"]
    /\ UNCHANGED <<gTag, gChan, gSender, gSendSt, gPoll, gQueues, gReady,
                   gLink, gSendHist, cur, res, ret, snap>>

\* *id += 1;  on i32::MAX a build with overflow checks panics (the guard is
\* dropped while unwinding, which poisons the mutex), one without wraps.
ChanIncr(t) ==
    /\ pc[t] = "chan_incr"
    /\ IF TAG = I32Max /\ lim.checks
       THEN /\ pc' = [pc EXCEPT ![t] = "panicked"]
            /\ tagPoisoned' = TRUE
            /\ tagLock' = 0
            /\ UNCHANGED TAG
       ELSE /\ TAG' = Incr32(TAG)
            /\ pc' = [pc EXCEPT ![t] = "chan_done"]
            /\ UNCHANGED <<tagLock, tagPoisoned>>
    /\ UNCHANGED <<lim, gChan, gSender, gSendSt, gPoll, gQueues, gReady, gLink,
                   gSendHist, cur, aux, res, ret, snap>>

\* Receiver { signal, rx, tag: next }, Sender { producer: None, signal, tx,
\* tag: next, init: false }; the guard `id` is dropped on return.
ChanDone(t) ==
    /\ pc[t] = "chan_done"
    /\ LET c == nchan + 1
           s == nsender + 1
       IN /\ nchan' = c
          /\ tag' = [tag EXCEPT ![c] = aux[t]]
          /\ rxAlive' = [rxAlive EXCEPT ![c] = TRUE]
          /\ nsender' = s
          /\ sChan' = [sChan EXCEPT ![s] = c]
          /\ sTag' = [sTag EXCEPT ![s] = aux[t]]
          /\ ret' = [ret EXCEPT ![t] = [op |-> "channel", val |-> aux[t]]]
    /\ tagLock' = 0
    /\ aux' = [aux EXCEPT ![t] = 0]
    /\ pc' = [pc EXCEPT ![t] = "idle"]
    /\ UNCHANGED <<lim, TAG, tagPoisoned, gSendSt, gPoll, queue, enq, deq, gReady,
                   gLink, gSendHist, cur, res, snap>>

\* ------------------------------------------------- impl Clone for Sender
CloneCacheCopied(s) == [init |-> sInit[s], producer |-> sProducer[s]]

\* init: Mutex::new(false), producer: Mutex::new(None)
CloneCache(s) == [init |-> FALSE, producer |-> 0]

Clone(t, s) ==
    /\ pc[t] = "idle"
    /\ s <= nsender
    /\ nsender - nchan < lim.clones
    /\ nsender' = nsender + 1
    /\ sChan' = [sChan EXCEPT ![nsender + 1] = sChan[s]]
    /\ sTag' = [sTag EXCEPT ![nsender + 1] = sTag[s]]
    /\ sInit' = [sInit EXCEPT ![nsender + 1] = CloneCache(s).init]
    /\ sProducer' = [sProducer EXCEPT ![nsender + 1] = CloneCache(s).producer]
    /\ ret' = [ret EXCEPT ![t] = NoRet]
    /\ UNCHANGED <<gTag, gChan, sInitLock, sProdLock, gPoll, gQueues, gReady,
                   gLink, gSendHist, pc, cur, aux, res, snap>>

\* ------------------------------------------------------------- Poll::new
PollNew(t) ==
    /\ pc[t] = "idle"
    /\ npoll < lim.polls
    /\ npoll' = npoll + 1
    /\ pollAlive' = [pollAlive EXCEPT ![npoll + 1] = TRUE]
    /\ ret' = [ret EXCEPT ![t] = NoRet]
    /\ UNCHANGED <<gTag, gChan, gSender, gSendSt, gQueues, gReady, gLink,
                   gSendHist, pc, cur, aux, res, snap>>

\* ------------------------------------------------------------- Poll::add
\* let mut inner = outer.lock().unwrap(); *inner = self.signal.clone();
\* Only the outer mutex is taken, and nothing is waited for while it is held.
AddLinkAll(g, c) == [d \in Chans |-> IF d <= nchan THEN g ELSE link[d]]

\* *inner = self.signal.clone();   the outer cell of this Receiver, and of
\* no other, now points at the Poll's cell
AddLink(g, c) == [link EXCEPT ![c] = g]

Add(t, g, c) ==
    /\ pc[t] = "idle"
    /\ g <= npoll /\ pollAlive[g]
    /\ c <= nchan /\ rxAlive[c]
    /\ outerLock[c] = 0
    /\ link' = AddLink(g, c)
    /\ late' = [late EXCEPT ![c] = @ \/ link[c] \notin {0, g}]
    /\ ret' = [ret EXCEPT ![t] = NoRet]
    /\ UNCHANGED <<gTag, gChan, gSender, gSendSt, gPoll, gQueues, gReady,
                   outerLock, gSendHist, pc, cur, aux, res, snap>>

\* ----------------------------------------------------------- Poll::append
\* pub fn append(&self, receivers: &[&T]): the slice holds the Receivers
\* c0 .. nchan in the order they were created (tests/poll.rs:9).
AppendCall(t, g, c0) ==
    /\ pc[t] = "idle"
    /\ g <= npoll /\ pollAlive[g]
    /\ c0 <= nchan
    /\ \A c \in c0..nchan : rxAlive[c]
    /\ cur' = [cur EXCEPT ![t] = g]
    /\ aux' = [aux EXCEPT ![t] = c0]
    /\ ret' = [ret EXCEPT ![t] = NoRet]
    /\ pc' = [pc EXCEPT ![t] = "append"]
    /\ UNCHANGED <<gTag, gChan, gSender, gSendSt, gPoll, gQueues, gReady,
                   gLink, gSendHist, res, snap>>

\* for i in receivers { self.add(*i); }   one add per step, in order
AppendStep(t) ==
    /\ pc[t] = "append"
    /\ outerLock[aux[t]] = 0
    /\ link' = AddLink(cur[t], aux[t])
    /\ late' = [late EXCEPT ![aux[t]] = @ \/ link[aux[t]] \notin {0, cur[t]}]
    /\ IF aux[t] < nchan
       THEN /\ aux' = [aux EXCEPT ![t] = @ + 1]
            /\ UNCHANGED <<pc, cur>>
       ELSE /\ aux' = [aux EXCEPT ![t] = 0]
            /\ cur' = [cur EXCEPT ![t] = 0]
            /\ pc' = [pc EXCEPT ![t] = "idle"]
    /\ UNCHANGED <<gTag, gChan, gSender, gSendSt, gPoll, gQueues, gReady,
                   outerLock, gSendHist, res, ret, snap>>

\* ---------------------------------------------------------- Sender::send
Sending == {"send_outer", "send_inner", "send_data", "send_signal"}

\* the sends that have returned
DoneSends == (1..nsent) \ {aux[u] : u \in {x \in Threads : pc[x] \in Sending}}

\* let mut init = self.init.lock().unwrap();
\* let mut producer = self.producer.lock().unwrap();
\* if !*init { *init = true; ... }
\* The producer mutex is only ever taken under the init mutex, so the second
\* lock() never waits. data is the number of the send, nsent + 1.
FirstSendAlways(s) == TRUE

\* if !*init   the lookup of the link is made on the Sender's first send only
FirstSend(s) == ~sInit[s]

SendLock(t, s) ==
    /\ pc[t] = "idle"
    /\ s <= nsender
    /\ nsent < lim.sends
    /\ sInitLock[s] = 0
    /\ sProdLock[s] = 0
    /\ sInitLock' = [sInitLock EXCEPT ![s] = t]
    /\ sProdLock' = [sProdLock EXCEPT ![s] = t]
    /\ sInit' = [sInit EXCEPT ![s] = TRUE]
    /\ nsent' = nsent + 1
    /\ log' = [log EXCEPT ![nsent + 1] =
                [NoLog EXCEPT !.s = s, !.after = DoneSends,
                              !.dead0 = ~rxAlive[sChan[s]]]]
    /\ late' = [late EXCEPT ![sChan[s]] = @ \/ link[sChan[s]] = 0]
    /\ cur' = [cur EXCEPT ![t] = s]
    /\ aux' = [aux EXCEPT ![t] = nsent + 1]
    /\ snap' = [snap EXCEPT ![t] = [lk0 |-> link[sChan[s]], first |-> ~sInit[s]]]
    /\ ret' = [ret EXCEPT ![t] = NoRet]
    /\ pc' = [pc EXCEPT ![t] = IF FirstSend(s) THEN "send_outer" ELSE "send_data"]
    /\ UNCHANGED <<gTag, gChan, gSender, sProducer, gPoll, gQueues, gReady,
                   link, outerLock, res>>

\* let inner = self.signal.lock().unwrap();
SendLockOuter(t) ==
    /\ pc[t] = "send_outer"
    /\ outerLock[sChan[cur[t]]] = 0
    /\ outerLock' = [outerLock EXCEPT ![sChan[cur[t]]] = t]
    /\ pc' = [pc EXCEPT ![t] = "send_inner"]
    /\ UNCHANGED <<gTag, gChan, gSender, gSendSt, gPoll, gQueues, gReady,
                   link, late, gSendHist, cur, aux, res, ret, snap>>

\* The inner mutex the outer cell points at is free: the channel's own cell
\* is only ever locked under the outer mutex, a Poll's cell is held by poll.
InnerFree(c) == IF link[c] = 0 THEN TRUE ELSE sigLock[link[c]] = 0

ResolveNothing(c) == 0

\* what the first send finds in the cell the outer mutex points at: None in
\* the channel's own cell, Some(Signal) in a Poll's, whose tx it clones
Resolve(c) == link[c]

\* let signal = inner.lock().unwrap();
\* if signal.is_some() { *producer = Some(signal.as_ref().unwrap().tx.clone()) }
\* and both guards are dropped at the end of the block.
SendLockInner(t) ==
    /\ pc[t] = "send_inner"
    /\ InnerFree(sChan[cur[t]])
    /\ sProducer' = [sProducer EXCEPT ![cur[t]] = Resolve(sChan[cur[t]])]
    /\ outerLock' = [outerLock EXCEPT ![sChan[cur[t]]] = 0]
    /\ pc' = [pc EXCEPT ![t] = "send_data"]
    /\ UNCHANGED <<gTag, gChan, gSender, sInit, sInitLock, sProdLock, gPoll,
                   gQueues, gReady, link, late, gSendHist, cur, aux, res,
                   ret, snap>>

DeliversNothing(t) == FALSE

DeliversOnlyIfBound(t) == rxAlive[sChan[cur[t]]] /\ sProducer[cur[t]] # 0

\* self.tx.send(data) on an unbounded queue: Ok unless the Receiver is gone
Delivers(t) == rxAlive[sChan[cur[t]]]

\* let result = self.tx.send(data);   Err(SendError) iff the Receiver is gone
SendData(t) ==
    /\ pc[t] = "send_data"
    /\ LET c == sChan[cur[t]]
       IN IF Delivers(t)
          THEN /\ queue' = [queue EXCEPT ![c] = Append(@, aux[t])]
               /\ enq' = [enq EXCEPT ![c] = Append(@, aux[t])]
               /\ res' = [res EXCEPT ![t] = 1]
          ELSE /\ res' = [res EXCEPT ![t] = 0]
               /\ UNCHANGED <<queue, enq>>
    /\ pc' = [pc EXCEPT ![t] = "send_signal"]
    /\ UNCHANGED <<gTag, gChan, gSender, gSendSt, gPoll, rxAlive, deq, gReady,
                   gLink, gSendHist, cur, aux, ret, snap>>

\* the entry signal.send(self.tag) puts on the Poll's queue; v is history:
\* the number of the send it comes from
Entry(t) == [tag |-> sTag[cur[t]], v |-> aux[t]]

SendResultOfPush(t, lands) == IF sProducer[cur[t]] # 0 /\ ~lands THEN 0 ELSE res[t]

\* return result;   the push's own result is discarded (let _ =)
SendResult(t, lands) == res[t]

\* if let Some(signal) = &*producer { let _ = signal.send(self.tag); }
\* return result;   (both guards are dropped)
PushTargetIfOk(t) == IF res[t] = 1 THEN sProducer[cur[t]] ELSE 0

\* if let Some(signal) = &*producer   whatever `result` is
PushTarget(t) == sProducer[cur[t]]

SendSignal(t) ==
    /\ pc[t] = "send_signal"
    /\ LET s == cur[t]
           g == PushTarget(t)
           lands == g # 0 /\ SignalAlive(g)
       IN /\ IF lands
             THEN /\ ready' = [ready EXCEPT ![g] = Append(@, Entry(t))]
                  /\ pushed' = [pushed EXCEPT ![g] = Append(@, Entry(t))]
                  /\ snap' = [u \in Threads |->
                                IF u = t THEN NoSnap
                                ELSE IF pc[u] = "poll_recv" /\ cur[u] = g
                                     THEN [snap[u] EXCEPT !.saw = TRUE]
                                     ELSE snap[u]]
             ELSE /\ UNCHANGED <<ready, pushed>>
                  /\ snap' = [snap EXCEPT ![t] = NoSnap]
          /\ log' = [log EXCEPT ![aux[t]].res = SendResult(t, lands), ![aux[t]].to = g,
                                 ![aux[t]].landed = lands]
          /\ sInitLock' = [sInitLock EXCEPT ![s] = 0]
          /\ sProdLock' = [sProdLock EXCEPT ![s] = 0]
    /\ cur' = [cur EXCEPT ![t] = 0]
    /\ aux' = [aux EXCEPT ![t] = 0]
    /\ res' = [res EXCEPT ![t] = 0]
    /\ pc' = [pc EXCEPT ![t] = "idle"]
    /\ UNCHANGED <<gTag, gChan, gSender, sInit, sProducer, gPoll, gQueues,
                   sigLock, returned, gLink, nsent, ret>>

\* ------------------------------------------------------------ Poll::poll
\* the call: Duration::from_nanos((timeout * 1e9) as u64)
PollCall(t, g) ==
    /\ pc[t] = "idle"
    /\ g <= npoll /\ pollAlive[g]
    /\ cur' = [cur EXCEPT ![t] = g]
    /\ snap' = [snap EXCEPT ![t] =
                  [h0 |-> IF ready[g] = <<>> THEN 0 ELSE Head(ready[g]).v,
                   h1 |-> 0, saw |-> FALSE]]
    /\ ret' = [ret EXCEPT ![t] = NoRet]
    /\ pc' = [pc EXCEPT ![t] = "poll_lock"]
    /\ UNCHANGED <<gTag, gChan, gSender, gSendSt, gPoll, gQueues, gReady,
                   gLink, gSendHist, aux, res>>

\* let signal = self.signal.lock().unwrap();
PollLock(t) ==
    /\ pc[t] = "poll_lock"
    /\ sigLock[cur[t]] = 0
    /\ sigLock' = [sigLock EXCEPT ![cur[t]] = t]
    /\ snap' = [snap EXCEPT ![t].h1 =
                  IF ready[cur[t]] = <<>> THEN 0 ELSE Head(ready[cur[t]]).v]
    /\ pc' = [pc EXCEPT ![t] = "poll_recv"]
    /\ UNCHANGED <<gTag, gChan, gSender, gSendSt, gPoll, gQueues, ready,
                   pushed, returned, gLink, gSendHist, cur, aux, res, ret>>

PollTakeLast(q) == [e |-> q[Len(q)], rest |-> SubSeq(q, 1, Len(q) - 1)]

PollPeek(q) == [e |-> Head(q), rest |-> q]

\* what recv_timeout takes off a queue that holds an entry: the oldest
PollTake(q) == [e |-> Head(q), rest |-> Tail(q)]

\* rx.recv_timeout(timeout) finds an entry: Ok(tag); the guard is dropped
PollRecv(t) ==
    /\ pc[t] = "poll_recv"
    /\ ready[cur[t]] # <<>>
    /\ LET g == cur[t]
           e == PollTake(ready[g]).e
       IN /\ ready' = [ready EXCEPT ![g] = PollTake(ready[g]).rest]
          /\ returned' = [returned EXCEPT ![g] = Append(@, e)]
          /\ ret' = [ret EXCEPT ![t] = [op |-> "poll", val |-> e.tag]]
          /\ sigLock' = [sigLock EXCEPT ![g] = 0]
    /\ snap' = [snap EXCEPT ![t] = NoSnap]
    /\ cur' = [cur EXCEPT ![t] = 0]
    /\ pc' = [pc EXCEPT ![t] = "idle"]
    /\ UNCHANGED <<gTag, gChan, gSender, gSendSt, gPoll, gQueues, pushed,
                   gLink, gSendHist, aux, res>>

TimedOutAnytime(g) == TRUE

TimedOutNever(g) == FALSE

\* recv_timeout returns Err(Timeout) only when the deadline passes with the
\* queue empty
TimedOut(g) == ready[g] = <<>>

\* the timeout elapses with the queue empty: Err(Timeout), unwrap_or(-1)
PollTimeout(t) ==
    /\ pc[t] = "poll_recv"
    /\ TimedOut(cur[t])
    /\ ret' = [ret EXCEPT ![t] = [op |-> "poll", val |-> -1]]
    /\ sigLock' = [sigLock EXCEPT ![cur[t]] = 0]
    /\ snap' = [snap EXCEPT ![t] = NoSnap]
    /\ cur' = [cur EXCEPT ![t] = 0]
    /\ pc' = [pc EXCEPT ![t] = "idle"]
    /\ UNCHANGED <<gTag, gChan, gSender, gSendSt, gPoll, gQueues, ready,
                   pushed, returned, gLink, gSendHist, aux, res>>

\* ----------------------------------- Receiver::recv / try_recv / recv_timeout
\* recv() blocks until the queue holds a payload; recv_timeout and try_recv
\* return the same payload when there is one.
RecvTakeLast(q) == [e |-> q[Len(q)], rest |-> SubSeq(q, 1, Len(q) - 1)]

\* what self.rx.recv() takes off a queue that holds a payload: the oldest
RecvTake(q) == [e |-> Head(q), rest |-> Tail(q)]

Recv(t, c) ==
    /\ pc[t] = "idle"
    /\ c <= nchan /\ rxAlive[c]
    /\ queue[c] # <<>>
    /\ queue' = [queue EXCEPT ![c] = RecvTake(queue[c]).rest]
    /\ deq' = [deq EXCEPT ![c] = Append(@, RecvTake(queue[c]).e)]
    /\ ret' = [ret EXCEPT ![t] = NoRet]
    /\ UNCHANGED <<gTag, gChan, gSender, gSendSt, gPoll, rxAlive, enq, gReady,
                   gLink, gSendHist, pc, cur, aux, res, snap>>

\* try_recv on an empty queue: Err(TryRecvError::Empty); recv_timeout:
\* Err(RecvTimeoutError::Timeout). No Sender is dropped, so never Disconnected.
TryRecvEmpty(t, c) ==
    /\ pc[t] = "idle"
    /\ c <= nchan /\ rxAlive[c]
    /\ queue[c] = <<>>
    /\ ret' = [ret EXCEPT ![t] = NoRet]
    /\ UNCHANGED <<gTag, gChan, gSender, gSendSt, gPoll, gQueues, gReady,
                   gLink, gSendHist, pc, cur, aux, res, snap>>

\* ------------------------------------------------------------------ drops
\* The Receiver goes out of scope: the payload queue is disconnected and
\* its payloads are discarded; the outer cell lives on in the Senders.
DropReceiver(c) ==
    /\ c <= nchan /\ rxAlive[c]
    /\ \A t \in Threads : pc[t] # "append"
    /\ rxAlive' = [rxAlive EXCEPT ![c] = FALSE]
    /\ queue' = [queue EXCEPT ![c] = <<>>]
    /\ UNCHANGED <<gTag, gChan, gSender, gSendSt, gPoll, enq, deq, gReady,
                   gLink, gSendHist, pc, cur, aux, res, ret, snap>>

\* The Poll goes out of scope (no thread is inside poll(&self) on it). Its
\* Signal, and with it the receiving end of its queue, lives on while a
\* channel's outer cell still points at it.
DropPoll(g) ==
    /\ g <= npoll /\ pollAlive[g]
    /\ \A t \in Threads : pc[t] \in {"poll_lock", "poll_recv", "append"} => cur[t] # g
    /\ pollAlive' = [pollAlive EXCEPT ![g] = FALSE]
    /\ UNCHANGED <<gTag, gChan, gSender, gSendSt, npoll, gQueues, gReady,
                   gLink, gSendHist, pc, cur, aux, res, ret, snap>>

\* ------------------------------------------------------------------ Next
Channel == \E t \in Threads : ChanLock(t) \/ ChanRead(t) \/ ChanIncr(t) \/ ChanDone(t)

Send ==
    \/ \E t \in Threads, s \in Senders : SendLock(t, s)
    \/ \E t \in Threads :
          \/ SendLockOuter(t)
          \/ SendLockInner(t)
          \/ SendData(t)
          \/ SendSignal(t)

Poll ==
    \/ \E t \in Threads, g \in Polls : PollCall(t, g)
    \/ \E t \in Threads : PollLock(t) \/ PollRecv(t) \/ PollTimeout(t)

PollAppend ==
    \/ \E t \in Threads, g \in Polls, c \in Chans : AppendCall(t, g, c)
    \/ \E t \in Threads : AppendStep(t)

Receive ==
    \/ \E t \in Threads, c \in Chans : Recv(t, c)
    \/ \E t \in Threads, c \in Chans : TryRecvEmpty(t, c)

Next ==
    \/ \E t \in Threads, s \in Senders : Clone(t, s)
    \/ \E t \in Threads, g \in Polls, c \in Chans : Add(t, g, c)
    \/ PollAppend
    \/ Send
    \/ Poll
    \/ Receive

NextRebind ==
    \/ \E c \in Chans : DropReceiver(c)
    \/ \E g \in Polls : DropPoll(g)
    \/ Next

NextBind ==
    \/ \E t \in Threads, g \in Polls, c \in Chans : Add(t, g, c)
    \/ PollAppend
    \/ Send
    \/ Poll
    \/ Receive

NextLive ==
    \/ Channel
    \/ \E t \in Threads, s \in Senders : Clone(t, s)
    \/ \E t \in Threads, g \in Polls, c \in Chans : Add(t, g, c)
    \/ PollAppend
    \/ Send
    \/ Poll

\* A thread inside a call keeps running: each step of a call is taken if it
\* stays possible. A std Mutex makes no promise to a thread waiting for it
\* when the mutex is released and taken again, so the fairness of the lock
\* steps is weak too. Every thread is a poller: whenever it is between
\* calls again and again, it calls poll again and again.
Fairness ==
    \A t \in Threads :
        /\ WF_vars(ChanRead(t)) /\ WF_vars(ChanIncr(t)) /\ WF_vars(ChanDone(t))
        /\ WF_vars(AppendStep(t))
        /\ WF_vars(SendLockOuter(t)) /\ WF_vars(SendLockInner(t))
        /\ WF_vars(SendData(t)) /\ WF_vars(SendSignal(t))
        /\ SF_vars(\E g \in Polls : PollCall(t, g))
        /\ WF_vars(PollLock(t)) /\ WF_vars(PollRecv(t)) /\ WF_vars(PollTimeout(t))

NextTag == Channel \/ \E t \in Threads : PollNew(t)

Spec == Init /\ [][Next]_vars

SpecRebind == InitRebind /\ [][NextRebind]_vars

SpecTag == InitTag /\ [][NextTag]_vars

SpecBind == InitBind /\ [][NextBind]_vars

SpecLive == InitLive /\ [][NextLive]_vars /\ Fairness

\* ---------------------------------------------------------------- claims

\* C1: poll returns the entries of a Poll's queue in exactly the order their
\* pushes landed, each once and none lost, and a send that finished before
\* another started has its entry ahead of the other's: two sends on
\* channels A then B are returned as a then b.
C1_WaitReturnsInPushOrder ==
    \A g \in Polls :
        /\ returned[g] \o ready[g] = pushed[g]
        /\ \A i, j \in DOMAIN pushed[g] :
              i < j => pushed[g][j].v \notin log[pushed[g][i].v].after

\* Two channels bound before any send, a send on one finished before a send
\* on the other started, two polls returned the two ids in that order and
\* the next poll returned -1.
C1_Witness ==
    \E g \in Polls, t \in Threads :
        /\ Len(returned[g]) = 2
        /\ ready[g] = <<>>
        /\ LogChan(returned[g][1].v) # LogChan(returned[g][2].v)
        /\ returned[g][1].tag # returned[g][2].tag
        /\ returned[g][1].v \in log[returned[g][2].v].after
        /\ \A c \in 1..nchan : ~late[c]
        /\ ret[t] = [op |-> "poll", val |-> -1]

\* the sends on channel c that have returned
SendsOn(c) == {v \in DoneSends : LogChan(v) = c}

\* the positions in pushed[g] of the entries that sends on channel c pushed
EntriesOf(g, c) == {i \in DOMAIN pushed[g] : LogChan(pushed[g][i].v) = c}

\* C2: for a channel bound to a Poll before any send on it started (and not
\* moved since), every finished send, on the original Sender or a clone,
\* pushed exactly one entry with the channel's tag on that Poll's queue and
\* none anywhere else, and what is received from the channel was sent on it.
C2_EverySendNotifiesOnce ==
    \A c \in 1..nchan :
        (link[c] # 0 /\ ~late[c]) =>
            LET g == link[c]
            IN /\ {pushed[g][i].v : i \in EntriesOf(g, c)} = SendsOn(c)
               /\ Cardinality(EntriesOf(g, c)) = Cardinality(SendsOn(c))
               /\ \A i \in EntriesOf(g, c) : pushed[g][i].tag = tag[c]
               /\ \A h \in Polls \ {g} : EntriesOf(h, c) = {}
               /\ SendsOn(c) \subseteq Range(enq[c])
               /\ Range(deq[c]) \subseteq Range(enq[c])

\* A channel bound before any send, one send on its Sender and one on a
\* clone, both ids returned by poll, both payloads received, and the next
\* poll returned -1.
C2_Witness ==
    \E c \in 1..nchan, t \in Threads :
        /\ link[c] # 0 /\ ~late[c]
        /\ SendsOn(c) = {1, 2}
        /\ log[1].s # log[2].s
        /\ Len(returned[link[c]]) = 2
        /\ Len(deq[c]) = 2
        /\ ret[t] = [op |-> "poll", val |-> -1]

\* the step in which thread t's send pushes and returns
SendReturns(t) == pc[t] = "send_signal" /\ pc'[t] = "idle"

\* C3: a Sender that has notified one Poll and sends again after its
\* Receiver was added to another Poll puts its id on the queue of the Poll
\* the Receiver is bound to now, and on no other.
C3_RebindSupersedes ==
    [][\A t \in Threads :
          (/\ SendReturns(t)
           /\ ~snap[t].first
           /\ sProducer[cur[t]] # 0
           /\ snap[t].lk0 # 0
           /\ link[sChan[cur[t]]] = snap[t].lk0)
          => /\ pushed'[snap[t].lk0] = Append(pushed[snap[t].lk0], Entry(t))
             /\ \A g \in Polls \ {snap[t].lk0} : pushed'[g] = pushed[g]]_vars

\* C4: a thread inside send never waits for a mutex that a thread blocked
\* inside poll holds.
C4_SendNeverWaitsForPoll ==
    \A t, u \in Threads :
        ~(/\ pc[t] = "send_inner"
          /\ pc[u] = "poll_recv"
          /\ link[sChan[cur[t]]] = cur[u])

\* C5: what a send returns is what the enqueue of its payload returned: Ok
\* exactly when the payload was put on the channel's queue, Err only when
\* the Receiver is gone and always when it was gone before the send
\* started, whatever the Sender cached and whether or not its push landed.
C5_SendReturnsEnqueueResult ==
    \A v \in DoneSends :
        /\ log[v].res \in {0, 1}
        /\ log[v].res = 1 <=> v \in Range(enq[LogChan(v)])
        /\ log[v].res = 0 => ~rxAlive[LogChan(v)]
        /\ log[v].dead0 => log[v].res = 0

\* A send returned Ok although its push found the Poll's Signal freed, and
\* another returned Err and still pushed.
C5_Witness ==
    /\ \E v \in DoneSends : log[v].res = 1 /\ log[v].to # 0 /\ ~log[v].landed
    /\ \E v \in DoneSends : log[v].res = 0

\* C6: a send on a channel that was never added to a Poll returns Ok, its
\* payload is received or still in the queue while the Receiver lives, and
\* no Poll's queue ever gets an entry from it.
C6_UnboundSendIsSilent ==
    \A c \in 1..nchan :
        link[c] = 0 =>
            /\ \A g \in Polls : EntriesOf(g, c) = {}
            /\ \A v \in SendsOn(c) :
                  /\ log[v].to = 0
                  /\ rxAlive[c] =>
                        /\ log[v].res = 1
                        /\ v \in Range(deq[c]) \cup Range(queue[c])

\* A send on a never-bound channel returned and its payload was received,
\* while the Poll has a channel bound to it.
C6_Witness ==
    \E c, d \in 1..nchan :
        /\ link[c] = 0
        /\ link[d] # 0
        /\ \E v \in SendsOn(c) : v \in Range(deq[c])

\* C7: with TAG starting at 0, whatever the interleaving of the creating
\* threads, the k-th channel created has tag k - 1 on its Receiver and on
\* its Sender.
C7_TagsCountFromZero ==
    lim.tag0 = 0 =>
        /\ \A c \in 1..nchan : tag[c] = c - 1
        /\ \A s \in 1..nsender : sTag[s] = tag[sChan[s]]

\* Every channel of the run was created, TAG having started at 0.
C7_Witness == lim.tag0 = 0 /\ nchan = lim.chans /\ nchan > 1

\* C8: no channel is ever given the tag -1.
C8_NoChannelGetsMinusOne == \A c \in 1..nchan : tag[c] # -1

\* the step in which thread t's poll returns
PollReturns(t) == pc[t] = "poll_recv" /\ pc'[t] = "idle"

\* the entry the returning poll of Poll g took
Taken(g) == returned'[g][Len(returned'[g])]

\* C9: a poll called while an entry is pending returns the oldest entry that
\* was pending then, and returns -1 only if none was pending then.
C9_WaitReturnsOldestAtCall ==
    [][\A t \in Threads :
          PollReturns(t) =>
              /\ snap[t].h0 # 0 =>
                    /\ ret'[t].val # -1
                    /\ Len(returned'[cur[t]]) = Len(returned[cur[t]]) + 1
                    /\ Taken(cur[t]).v = snap[t].h0
              /\ ret'[t].val = -1 => snap[t].h0 = 0]_vars

\* C9, amended: a poll returns -1 only if the Poll's queue held no entry
\* from the moment the call took the Poll's mutex until the timeout; if an
\* entry is pending when it takes the mutex it returns the oldest one and
\* removes exactly that entry; and every other value it returns is the tag
\* of a Sender whose send pushed on this Poll's queue.
C9_WaitReturnsOldestAtLock ==
    [][\A t \in Threads :
          PollReturns(t) =>
              LET g == cur[t]
              IN /\ snap[t].h1 # 0 =>
                       /\ ret'[t].val # -1
                       /\ Len(returned'[g]) = Len(returned[g]) + 1
                       /\ Taken(g).v = snap[t].h1
                       /\ ready'[g] = Tail(ready[g])
                 /\ ret'[t].val = -1 =>
                       /\ snap[t].h1 = 0
                       /\ ~snap[t].saw
                       /\ ready'[g] = ready[g]
                       /\ returned'[g] = returned[g]
                 /\ ret'[t].val # -1 =>
                       /\ ret'[t].val = Taken(g).tag
                       /\ \E i \in DOMAIN pushed[g] :
                             /\ pushed[g][i] = Taken(g)
                             /\ sTag[log[pushed[g][i].v].s] = ret'[t].val]_vars

\* One thread's poll returned an id and another's returned -1.
C9_Witness ==
    \E t, u \in Threads :
        /\ ret[t].op = "poll" /\ ret[t].val # -1
        /\ ret[u].op = "poll" /\ ret[u].val = -1

\* C10: whatever polls run concurrently on a Poll, every entry pushed on
\* its queue is returned by at most one of them and is otherwise still
\* pending: none is returned twice, none is lost.
C10_NoDuplicateNoLoss ==
    \A g \in Polls :
        LET all == returned[g] \o ready[g]
        IN /\ \A i, j \in DOMAIN all : i # j => all[i].v # all[j].v
           /\ {all[i].v : i \in DOMAIN all} = {pushed[g][i].v : i \in DOMAIN pushed[g]}
           /\ Len(all) = Len(pushed[g])

\* Two polls on one Poll overlap: the entry that was pending when thread u
\* called was returned to thread t, and u holds the mutex with another entry.
C10_Witness ==
    \E g \in Polls, t, u \in Threads :
        /\ t # u
        /\ ret[t].op = "poll" /\ ret[t].val # -1
        /\ pc[u] = "poll_recv" /\ cur[u] = g
        /\ returned[g] # <<>>
        /\ snap[u].h0 = returned[g][Len(returned[g])].v
        /\ ready[g] # <<>>

\* the step in which Receiver c is added to Poll g, by add or inside append
Binds(g, c) ==
    \E t \in Threads :
        \/ Add(t, g, c)
        \/ pc[t] = "append" /\ cur[t] = g /\ aux[t] = c /\ AppendStep(t)

\* C11: adding a Receiver to a Poll, by add or as one element of append,
\* changes that Receiver's link and nothing else: afterwards the link
\* points at the Poll of this add, every other Receiver's link is as it
\* was, no Poll's queue and no payload queue gained or lost an entry, no
\* Sender's cache changed, and adding a Receiver to the Poll it is already
\* linked to changes no link at all.
C11_AddChangesOnlyTheLink ==
    [][\A g \in Polls, c \in Chans :
          Binds(g, c) =>
              /\ link'[c] = g
              /\ \A d \in Chans \ {c} : link'[d] = link[d]
              /\ link[c] = g => link' = link
              /\ ready' = ready /\ pushed' = pushed /\ returned' = returned
              /\ queue' = queue /\ enq' = enq /\ deq' = deq
              /\ sInit' = sInit /\ sProducer' = sProducer
              /\ rxAlive' = rxAlive /\ pollAlive' = pollAlive]_vars

\* A Receiver was moved from one Poll to another while its id was pending
\* on the first and its payload was in its queue: both are still there, and
\* the other Receiver is still linked to the first Poll.
C11_Witness ==
    \E c, d \in 1..nchan, g, h \in Polls :
        /\ c # d /\ g # h
        /\ link[c] = h /\ link[d] = g
        /\ late[c]
        /\ EntriesOf(g, c) # {}
        /\ ready[g] = pushed[g]
        /\ ready[h] = <<>>
        /\ queue[c] # <<>>

\* C12: what was received from a channel followed by what is still in its
\* queue is what was put on it, each payload once; a payload whose send
\* returned before another send started is ahead of the other's, so the
\* sends of one Sender are received in the order they were made, whether
\* or not the Receiver is linked to a Poll.
C12_FifoPerChannel ==
    \A c \in 1..nchan :
        /\ deq[c] \o queue[c] = enq[c]
        /\ \A i, j \in DOMAIN enq[c] :
              i < j => /\ enq[c][i] # enq[c][j]
                       /\ enq[c][j] \notin log[enq[c][i]].after
        /\ \A v \in SendsOn(c) : v \in Range(enq[c])

\* Two sends of one Sender, the first while the Receiver was not linked to
\* a Poll and the second after it was added to one, were received in the
\* order they were sent.
C12_Witness ==
    \E c \in 1..nchan :
        /\ Len(deq[c]) = 2
        /\ log[deq[c][1]].s = log[deq[c][2]].s
        /\ deq[c][1] \in log[deq[c][2]].after
        /\ log[deq[c][1]].to = 0
        /\ link[c] # 0

\* C13: a send that returns Ok while the Receiver is linked to a Poll, and
\* was when the send started, pushes the Sender's tag on that Poll's queue.
C13_PushGoesToCurrentLink ==
    [][\A t \in Threads :
          (/\ SendReturns(t)
           /\ res[t] = 1
           /\ snap[t].lk0 # 0
           /\ link[sChan[cur[t]]] = snap[t].lk0)
          => pushed'[snap[t].lk0] = Append(pushed[snap[t].lk0], Entry(t))]_vars

\* the sends of Sender s that have returned
SendsOf(s) == {v \in DoneSends : log[v].s = s}

\* C14: a Sender looks at the link on its first send and never again. Its
\* cache is written only by its first send, before any of its sends has
\* returned; a later send goes straight to the enqueue without taking the
\* link's mutexes; and each of its sends pushes on the cached Poll's queue
\* or, with nothing cached, nowhere, wherever the link points by then.
C14_LinkReadOnce ==
    [][\A s \in 1..nsender :
          /\ sProducer'[s] # sProducer[s] =>
                /\ SendsOf(s) = {}
                /\ sProducer[s] = 0
                /\ \E t \in Threads :
                      pc[t] = "send_inner" /\ cur[t] = s /\ snap[t].first
          /\ \A t \in Threads :
                /\ (pc[t] = "idle" /\ pc'[t] \in Sending /\ cur'[t] = s /\ sInit[s])
                      => pc'[t] = "send_data"
                /\ (SendReturns(t) /\ cur[t] = s) =>
                      /\ log'[aux[t]].to = sProducer[s]
                      /\ \A v \in SendsOf(s) : log[v].to = sProducer[s]
                      /\ \A g \in Polls \ {sProducer[s]} : pushed'[g] = pushed[g]]_vars

\* A Sender whose first send cached one Poll is about to push for its
\* second send, which started after the Receiver was added to another Poll.
C14_Witness ==
    \E t \in Threads :
        /\ pc[t] = "send_signal"
        /\ ~snap[t].first
        /\ sProducer[cur[t]] # 0
        /\ snap[t].lk0 \notin {0, sProducer[cur[t]]}
        /\ link[sChan[cur[t]]] = snap[t].lk0
        /\ \E v \in SendsOf(cur[t]) : log[v].landed

\* C15: a clone starts with init false and nothing cached, whatever the
\* Sender it was cloned from has cached; the first send of any Sender,
\* clone or original, caches the Poll the link points at when it looks, and
\* leaves every other Sender's cache as it was.
C15_CloneResolvesAfresh ==
    [][/\ nsender' = nsender + 1 =>
             /\ ~sInit'[nsender']
             /\ sProducer'[nsender'] = 0
             /\ \A s \in 1..nsender :
                   sInit'[s] = sInit[s] /\ sProducer'[s] = sProducer[s]
       /\ \A t \in Threads :
             (pc[t] = "send_inner" /\ pc'[t] = "send_data") =>
                 /\ sProducer'[cur[t]] = link[sChan[cur[t]]]
                 /\ \A s \in Senders \ {cur[t]} : sProducer'[s] = sProducer[s]]_vars

\* The original Sender sent and pushed on one Poll; the Receiver was then
\* added to another Poll and a clone sent for the first time: the clone
\* pushed on the second Poll, the original still has the first cached.
C15_Witness ==
    \E v, w \in DoneSends :
        /\ log[v].s <= nchan
        /\ log[w].s > nchan
        /\ v \in log[w].after
        /\ log[v].landed /\ log[w].landed
        /\ log[v].to # log[w].to
        /\ sProducer[log[v].s] = log[v].to
        /\ link[LogChan(w)] = log[w].to

\* the number of entries pushed by sends on channel c in the queues q[g]
IdsOf(q, c) ==
    Cardinality({p \in Polls \X SendNos :
                    /\ p[2] \in DOMAIN q[p[1]]
                    /\ LogChan(q[p[1]][p[2]].v) = c})

\* C16: for a channel whose Receiver is alive and from which no more
\* payloads were taken than ids of it were returned by poll, the ids of it
\* pending on the Polls' queues, together with those returned whose payload
\* has not been taken yet, are at most the payloads in its queue: the
\* receive that follows a returned id finds a payload.
C16_PayloadBeforeId ==
    \A c \in 1..nchan :
        (rxAlive[c] /\ Len(deq[c]) <= IdsOf(returned, c)) =>
            /\ IdsOf(ready, c) + (IdsOf(returned, c) - Len(deq[c])) <= Len(queue[c])
            /\ IdsOf(pushed, c) <= Len(enq[c])

\* One id of a channel was returned by poll and its payload then taken,
\* and another id of it is pending with its payload in the queue.
C16_Witness ==
    \E c \in 1..nchan :
        /\ rxAlive[c]
        /\ IdsOf(returned, c) = 1
        /\ Len(deq[c]) = 1
        /\ IdsOf(ready, c) = 1
        /\ Len(queue[c]) = 1

\* send number v is in progress on a channel that was added to a Poll
\* before any send on it started
SendingBound(v) ==
    \E t \in Threads :
        /\ pc[t] \in Sending
        /\ aux[t] = v
        /\ link[sChan[cur[t]]] # 0
        /\ ~late[sChan[cur[t]]]

\* send number v has returned and a poll has returned its entry
SentAndReturned(v) ==
    /\ v \in DoneSends
    /\ \E g \in Polls : \E i \in DOMAIN returned[g] : returned[g][i].v = v

\* C17: while the threads keep calling poll, a send on a channel linked to
\* the Poll eventually returns and a poll eventually returns its id.
C17_SendCompletesAndIsReturned ==
    \A v \in SendNos : SendingBound(v) ~> SentAndReturned(v)

\* C18: every send of a Sender that has a Poll cached pushes one entry with
\* its tag on that Poll's queue while the Poll lives, whether the payload
\* was enqueued or the send returned Err because the Receiver was gone.
C18_PushEvenIfEnqueueFailed ==
    \A v \in DoneSends :
        LET g == sProducer[log[v].s]
        IN (g # 0 /\ pollAlive[g]) =>
              /\ Cardinality({i \in DOMAIN pushed[g] : pushed[g][i].v = v}) = 1
              /\ \A i \in DOMAIN pushed[g] :
                    pushed[g][i].v = v => pushed[g][i].tag = sTag[log[v].s]
              /\ log[v].landed

\* A send returned Err, its payload was never enqueued, and a poll
\* returned its channel's id for it.
C18_Witness ==
    \E v \in DoneSends, g \in Polls, t \in Threads :
        /\ log[v].res = 0
        /\ v \notin Range(enq[LogChan(v)])
        /\ returned[g] # <<>>
        /\ returned[g][Len(returned[g])].v = v
        /\ ret[t] = [op |-> "poll", val |-> sTag[log[v].s]]

\* the next step of the call thread t is inside
ThreadStep(t) ==
    \/ ChanRead(t) \/ ChanIncr(t) \/ ChanDone(t)
    \/ AppendStep(t)
    \/ SendLockOuter(t) \/ SendLockInner(t) \/ SendData(t) \/ SendSignal(t)
    \/ PollLock(t) \/ PollRecv(t) \/ PollTimeout(t)

\* the thread that holds the mutex thread t is waiting for, 0 if t is not
\* at a lock() or the mutex is free
WaitsFor(t) ==
    CASE pc[t] = "send_outer" -> outerLock[sChan[cur[t]]]
      [] pc[t] = "send_inner" ->
            IF link[sChan[cur[t]]] = 0 THEN 0 ELSE sigLock[link[sChan[cur[t]]]]
      [] pc[t] = "poll_lock" -> sigLock[cur[t]]
      [] pc[t] = "append" -> outerLock[aux[t]]
      [] OTHER -> 0

\* thread t can take its next step, or the thread it waits for can, or the
\* one that thread waits for, ... along at most n waits
RECURSIVE Unblocks(_, _)
Unblocks(t, n) ==
    IF ENABLED ThreadStep(t) THEN TRUE
    ELSE IF n = 0 \/ WaitsFor(t) = 0 THEN FALSE
    ELSE Unblocks(WaitsFor(t), n - 1)

\* C19: no thread inside channel, send, add, append or poll is ever stuck.
\* Every mutex that is held is held by a thread inside the call that takes
\* it; a thread that cannot take its next step waits for a mutex whose
\* holder can, directly or along a chain of waits that never comes back
\* to it; and a thread inside poll that holds the Poll's mutex can always
\* return, with an id or by timing out.
C19_NoDeadlock ==
    /\ tagLock # 0 => pc[tagLock] \in {"chan_read", "chan_incr", "chan_done"}
    /\ \A s \in Senders :
          /\ sInitLock[s] = sProdLock[s]
          /\ sInitLock[s] # 0 =>
                pc[sInitLock[s]] \in Sending /\ cur[sInitLock[s]] = s
    /\ \A c \in Chans :
          outerLock[c] # 0 =>
              pc[outerLock[c]] = "send_inner" /\ sChan[cur[outerLock[c]]] = c
    /\ \A g \in Polls :
          sigLock[g] # 0 => pc[sigLock[g]] = "poll_recv" /\ cur[sigLock[g]] = g
    /\ \A t \in Threads :
          /\ pc[t] # "idle" => Unblocks(t, NThreads - 1)
          /\ pc[t] = "poll_recv" => ENABLED (PollRecv(t) \/ PollTimeout(t))

\* A first send holds its Sender's mutexes and the link's outer mutex and
\* waits for the Poll's mutex, which a thread inside poll holds.
C19_Witness ==
    \E t, u \in Threads :
        /\ pc[t] = "send_inner"
        /\ ~ENABLED ThreadStep(t)
        /\ WaitsFor(t) = u
        /\ pc[u] = "poll_recv"
        /\ outerLock[sChan[cur[t]]] = t
        /\ nchan = lim.chans

====
